---- MODULE Spec2Model ----
(***************************************************************************)
(* Model of framework/core/proxy.py (RoboEarth Cloud Engine): the endpoint *)
(* proxies _EndpointProxy, RobotProxy, ROSEnvProxy and ContainerProxy.     *)
(*                                                                         *)
(* One proxy object is modelled.  Python strings are sequences of one-     *)
(* character strings, so that strip(), lower(), split() and the numeric    *)
(* parsers are computed the way the interpreter computes them.             *)
(***************************************************************************)
EXTENDS Integers, Sequences, FiniteSets, TLC

(* ------------------------------ bounds -------------------------------- *)

\* Number of top-level calls made on the proxy after its construction.
MaxOps == 4

\* Number of distinct interface handles offered to the proxy.
NumIfaces == 2

\* Number of distinct ROS addresses offered to the proxy.
NumAddrs == 2

Handles == 1..NumIfaces

Addrs == 1..NumAddrs

(* --------------------------- program state ---------------------------- *)

VARIABLES
    pc,          \* "new" | "failed" | "active" | "deleting"
    kind,        \* class of the proxy: "Robot" | "ROSEnv" | "Container"
    caps,        \* interfaces the control object provides
    user,        \* self._user
    control,     \* self._control
    interfaces,  \* self._interfaces
    rosAddrs,    \* self._rosAddrs
    connected,   \* self._connected
    todo,        \* delete(): elements of the copy not yet iterated
    snap,        \* delete(): the copy of self._interfaces being iterated
    sent,        \* commands the control received during the current call
    notified,    \* sendContainerUpdate calls the user received, current call
    ifCalls,     \* methods the proxy invoked on interfaces, current call
    lastNote,    \* flag of the latest sendContainerUpdate ever, or "none"
    last,        \* the current / latest top-level call and its outcome
    arg,         \* the arguments of that call
    nops,        \* number of top-level calls so far
    ifBehav,     \* what delete() of each interface object does
    request,     \* the request a caller holds (SpecNode, SpecParam)
    threads,     \* per concurrent caller: its position in reserveAddr
    exclusive    \* whether the host serialises the calls on the proxy

vars == <<pc, kind, caps, user, control, interfaces, rosAddrs, connected,
          todo, snap, sent, notified, ifCalls, lastNote, last, arg, nops,
          ifBehav, request,
                   threads, exclusive>>

Kinds == {"Robot", "ROSEnv", "Container"}

Capabilities == {"IEndpointControl", "IRobotControl", "INodeControl",
                 "IParameterControl", "IContainerControl"}

(* Python values: t is the type, n the number of an int / bool, s the     *)
(* characters of a str / unicode, items the elements of a list.  A float   *)
(* is the decimal number n * 10^e, normalised (n has no trailing zero), or  *)
(* one of the special values named in s: "inf", "-inf", "nan".              *)
PyStr(cs) == [t |-> "str", n |-> 0, e |-> 0, s |-> cs, items |-> <<>>]

PyUnicode(cs) == [t |-> "unicode", n |-> 0, e |-> 0, s |-> cs, items |-> <<>>]

PyInt(i) == [t |-> "int", n |-> i, e |-> 0, s |-> <<>>, items |-> <<>>]

RECURSIVE FloatNorm(_, _)
FloatNorm(mant, ex) ==
    IF mant = 0 THEN <<0, 0>>
    ELSE IF mant % 10 = 0 THEN FloatNorm(mant \div 10, ex + 1)
    ELSE <<mant, ex>>

PyFloat(mant, ex) ==
    [t |-> "float", n |-> FloatNorm(mant, ex)[1], e |-> FloatNorm(mant, ex)[2],
     s |-> <<>>, items |-> <<>>]

PyFloatSpecial(name) ==
    [t |-> "float", n |-> 0, e |-> 0, s |-> <<name>>, items |-> <<>>]

PyBool(b) == [t |-> "bool", n |-> IF b THEN 1 ELSE 0, e |-> 0, s |-> <<>>,
              items |-> <<>>]

PyNone == [t |-> "NoneType", n |-> 0, e |-> 0, s |-> <<>>, items |-> <<>>]

PyList(xs) == [t |-> "list", n |-> 0, e |-> 0, s |-> <<>>, items |-> xs]

\* The outcome of an expression: a value, or the exception it raises.
Ok(v) == [err |-> "", v |-> v]

Raise(e) == [err |-> e, v |-> PyNone]

\* Number of callers that may run reserveAddr concurrently.
NumCallers == 2

Callers == 1..NumCallers

\* A caller outside reserveAddr: pc is "idle", or "checked" between the test
\* of line 401 and the add of line 404 for address a; won holds the
\* addresses its calls have reserved.
NoThreads == [t \in Callers |-> [pc |-> "idle", a |-> 0, won |-> {}]]

\* Identity of the modelled proxy and the key of a robot.
Uid == PyStr(<<"u", "i", "d">>)

CommID == PyStr(<<"c", "o", "m", "m">>)

Key == PyStr(<<"k", "e", "y">>)

\* A call cmd(x) on the control: x is an object of class cls built from
\* args (class "str": the argument itself is passed).
Command(cmd, cls, args) == [cmd |-> cmd, cls |-> cls, args |-> args]

\* Whether the class has the ROSEnvProxy methods.
IsEnv(k) == k \in {"ROSEnv", "Container"}

\* The argument record of a call; unused slots keep these defaults.
NoArg == [h |-> 0, a |-> 0, flag |-> FALSE, node |-> <<>>, par |-> <<>>]

\* Bookkeeping of one finished top-level call.
Returned(op, res, a) ==
    /\ last' = [op |-> op, res |-> res]
    /\ arg' = a
    /\ nops' = nops + 1

\* The object exists and no call is running on it.
Idle == pc = "active" /\ nops < MaxOps

(* ---------------------------- construction ---------------------------- *)

\* Mutant: RobotProxy.__init__ without its verifyObject(IRobotControl, ..).
RequiredNoRobotCheck(k) ==
    CASE k = "Robot" -> <<"IEndpointControl">>
      [] k = "ROSEnv" -> <<"INodeControl", "IParameterControl",
                           "IEndpointControl">>
      [] k = "Container" -> <<"IContainerControl", "INodeControl",
                              "IParameterControl", "IEndpointControl">>

\* The verifyObject() calls of the constructors, in execution order.
Required(k) ==
    CASE k = "Robot" -> <<"IRobotControl", "IEndpointControl">>
      [] k = "ROSEnv" -> <<"INodeControl", "IParameterControl",
                           "IEndpointControl">>
      [] k = "Container" -> <<"IContainerControl", "INodeControl",
                              "IParameterControl", "IEndpointControl">>

\* verifyObject(iface, control) raises unless control provides iface.
verifyObject(iface, c) == iface \in c

\* The command issued at the end of __init__, if any.
CreateCommands(k) ==
    CASE k = "Robot" -> <<Command("createRobot", "RobotCommand",
                                  <<Uid, Key>>)>>
      [] k = "ROSEnv" -> <<>>
      [] k = "Container" -> <<Command("createContainer", "ContainerCommand",
                                      <<Uid, CommID>>)>>

\* RobotProxy(...), ROSEnvProxy(...), ContainerProxy(...).
Construct(k, c) ==
    /\ pc = "new"
    /\ kind' = k
    /\ caps' = c
    /\ last' = [op |-> "construct",
                res |-> IF \A i \in 1..Len(Required(k)) :
                               verifyObject(Required(k)[i], c)
                        THEN "ok" ELSE "ContractViolation"]
    /\ IF \A i \in 1..Len(Required(k)) : verifyObject(Required(k)[i], c)
       THEN /\ pc' = "active"
            /\ user' = "User"
            /\ control' = "Control"
            /\ sent' = CreateCommands(k)
       ELSE /\ pc' = "failed"
            /\ UNCHANGED <<user, control, sent>>
    /\ UNCHANGED <<interfaces, rosAddrs, connected, todo, snap, notified,
                   ifCalls, lastNote, arg, nops, ifBehav, request,
                   threads, exclusive>>

(* --------------------------- _EndpointProxy --------------------------- *)

\* Mutant: registerInterface without the duplicate check.
registerInterfaceNoCheck(interface) == FALSE

\* Line 102: the duplicate check of registerInterface.
registerInterfaceRaises(interface) == interface \in interfaces

registerInterface(interface) ==
    /\ Idle
    /\ sent' = <<>>
    /\ notified' = <<>>
    /\ IF registerInterfaceRaises(interface)
       THEN /\ Returned("registerInterface", "InternalError",
                        [NoArg EXCEPT !.h = interface])
            /\ ifCalls' = <<>>
            /\ UNCHANGED interfaces
       ELSE /\ ifCalls' = <<[h |-> interface, m |-> "registerControl",
                             c |-> control]>>
            /\ interfaces' = interfaces \cup {interface}
            /\ Returned("registerInterface", "ok",
                        [NoArg EXCEPT !.h = interface])
    /\ UNCHANGED <<pc, kind, caps, user, control, rosAddrs, connected, todo,
                   snap, lastNote, ifBehav, request,
                   threads, exclusive>>

\* Mutant: unregisterInterface without the membership check.
unregisterInterfaceNoCheck(interface) == FALSE

\* Line 116: the membership check of unregisterInterface.
unregisterInterfaceRaises(interface) == interface \notin interfaces

unregisterInterface(interface) ==
    /\ Idle
    /\ sent' = <<>>
    /\ notified' = <<>>
    /\ ifCalls' = <<>>
    /\ IF unregisterInterfaceRaises(interface)
       THEN /\ Returned("unregisterInterface", "InternalError",
                        [NoArg EXCEPT !.h = interface])
            /\ UNCHANGED interfaces
       ELSE /\ interfaces' = interfaces \ {interface}
            /\ Returned("unregisterInterface", "ok",
                        [NoArg EXCEPT !.h = interface])
    /\ UNCHANGED <<pc, kind, caps, user, control, rosAddrs, connected, todo,
                   snap, lastNote, ifBehav, request,
                   threads, exclusive>>

\* What delete() of an interface object may do.
IfaceBehaviours == {"plain", "unreg"}

\* What delete() of an interface object may do when it can also fail or
\* touch another interface.
IfaceBehavioursAll == IfaceBehaviours \cup {"unregOther", "raise"}

\* The partner an interface of behaviour "unregOther" unregisters.
IfOther(interface) == (interface % NumIfaces) + 1

\* The ROS address an interface object holds.
IfAddr(interface) == ((interface - 1) % NumAddrs) + 1

\* Mutant: ContainerProxy.delete without its destroyContainer call.
DestroyCommandsRobotOnly(k) ==
    CASE k = "Robot" -> <<Command("destroyRobot", "str", <<Uid>>)>>
      [] k = "ROSEnv" -> <<>>
      [] k = "Container" -> <<>>

\* Lines 174 and 486: the destruction command of the subclasses.
DestroyCommands(k) ==
    CASE k = "Robot" -> <<Command("destroyRobot", "str", <<Uid>>)>>
      [] k = "ROSEnv" -> <<>>
      [] k = "Container" -> <<Command("destroyContainer", "str", <<Uid>>)>>

\* Mutant: freeAddr that only logs.
freeAddrResultKeep(addr) == rosAddrs

\* Lines 412-415: the reserved addresses after freeAddr(addr).
freeAddrResult(addr) ==
    IF addr \notin rosAddrs THEN rosAddrs ELSE rosAddrs \ {addr}

\* Mutant: delete() clears self._user before the loop instead of after it.
deleteBeginClearing ==
    /\ Idle
    /\ notified' = <<>>
    /\ ifCalls' = <<>>
    /\ IF kind # "ROSEnv" /\ control = "None"
       THEN /\ Returned("delete", "AttributeError", NoArg)
            /\ sent' = <<>>
            /\ UNCHANGED <<pc, todo, snap, user>>
       ELSE /\ sent' = DestroyCommands(kind)
            /\ snap' = interfaces
            /\ todo' = interfaces
            /\ pc' = "deleting"
            /\ user' = "None"
            /\ last' = [op |-> "delete", res |-> "running"]
            /\ arg' = NoArg
            /\ nops' = nops + 1
    /\ UNCHANGED <<kind, caps, control, interfaces, rosAddrs,
                   connected, lastNote, ifBehav, request,
                   threads, exclusive>>

\* delete(), entry: the destruction command of RobotProxy / ContainerProxy
\* (a call on self._control), then the copy of the interface set.
deleteBegin ==
    /\ Idle
    /\ notified' = <<>>
    /\ ifCalls' = <<>>
    /\ IF kind # "ROSEnv" /\ control = "None"
       THEN /\ Returned("delete", "AttributeError", NoArg)
            /\ sent' = <<>>
            /\ UNCHANGED <<pc, todo, snap>>
       ELSE /\ sent' = DestroyCommands(kind)
            /\ snap' = interfaces
            /\ todo' = interfaces
            /\ pc' = "deleting"
            /\ last' = [op |-> "delete", res |-> "running"]
            /\ arg' = NoArg
            /\ nops' = nops + 1
    /\ UNCHANGED <<kind, caps, user, control, interfaces, rosAddrs,
                   connected, lastNote, ifBehav, request,
                   threads, exclusive>>

\* Mutant: the loop iterates self._interfaces itself, not a copy; the set
\* iterator raises RuntimeError once the set has changed size.
deleteStepLive(interface) ==
    /\ pc = "deleting"
    /\ interface \in todo
    /\ IF interfaces # snap
       THEN /\ pc' = "active"
            /\ last' = [op |-> "delete", res |-> "RuntimeError"]
            /\ todo' = {}
            /\ UNCHANGED <<interfaces, rosAddrs, ifCalls>>
       ELSE /\ ifCalls' = Append(ifCalls, [h |-> interface, m |-> "delete",
                                           c |-> ""])
            /\ interfaces' = IF ifBehav[interface] = "unreg"
                             THEN interfaces \ {interface} ELSE interfaces
            /\ rosAddrs' = IF ifBehav[interface] = "unreg" /\ IsEnv(kind)
                           THEN freeAddrResult(IfAddr(interface))
                           ELSE rosAddrs
            /\ todo' = todo \ {interface}
            /\ UNCHANGED <<pc, last>>
    /\ UNCHANGED <<kind, caps, user, control, connected, snap, sent,
                   notified, lastNote, arg, nops, ifBehav, request,
                   threads, exclusive>>

\* delete(), one iteration of the loop of lines 130-131: interface.delete()
\* runs; an interface of behaviour "unreg" calls back unregisterInterface
\* (self) and, on an environment, freeAddr(its address); one of behaviour
\* "unregOther" calls unregisterInterface of its partner; one of behaviour
\* "raise" raises.  An exception leaves delete() at line 131: the rest of
\* the copy is not iterated and lines 133-134 do not run.
deleteStep(interface) ==
    /\ pc = "deleting"
    /\ interface \in todo
    /\ ifCalls' = Append(ifCalls, [h |-> interface, m |-> "delete",
                                   c |-> ""])
    /\ CASE ifBehav[interface] = "unreg" ->
              IF unregisterInterfaceRaises(interface)
              THEN /\ pc' = "active"
                   /\ last' = [op |-> "delete", res |-> "InternalError"]
                   /\ todo' = {}
                   /\ UNCHANGED <<interfaces, rosAddrs>>
              ELSE /\ interfaces' = interfaces \ {interface}
                   /\ rosAddrs' = IF IsEnv(kind)
                                   THEN freeAddrResult(IfAddr(interface))
                                   ELSE rosAddrs
                   /\ todo' = todo \ {interface}
                   /\ UNCHANGED <<pc, last>>
         [] ifBehav[interface] = "unregOther" ->
              IF unregisterInterfaceRaises(IfOther(interface))
              THEN /\ pc' = "active"
                   /\ last' = [op |-> "delete", res |-> "InternalError"]
                   /\ todo' = {}
                   /\ UNCHANGED <<interfaces, rosAddrs>>
              ELSE /\ interfaces' = interfaces \ {IfOther(interface)}
                   /\ todo' = todo \ {interface}
                   /\ UNCHANGED <<pc, last, rosAddrs>>
         [] ifBehav[interface] = "raise" ->
              /\ pc' = "active"
              /\ last' = [op |-> "delete", res |-> "Exception"]
              /\ todo' = {}
              /\ UNCHANGED <<interfaces, rosAddrs>>
         [] OTHER ->
              /\ todo' = todo \ {interface}
              /\ UNCHANGED <<pc, last, interfaces, rosAddrs>>
    /\ UNCHANGED <<kind, caps, user, control, connected, snap, sent,
                   notified, lastNote, arg, nops, ifBehav, request,
                   threads, exclusive>>

\* Mutant: the references are cleared before the loop has finished.
deleteEndEarly ==
    /\ pc = "deleting"
    /\ user' = "None"
    /\ control' = "None"
    /\ pc' = "active"
    /\ last' = [op |-> "delete", res |-> "ok"]
    /\ UNCHANGED <<kind, caps, interfaces, rosAddrs, connected, todo, snap,
                   sent, notified, ifCalls, lastNote, arg, nops, ifBehav,
                   request,
                   threads, exclusive>>

\* Mutant: delete() without line 134, self._control stays set.
deleteEndKeepControl ==
    /\ pc = "deleting"
    /\ todo = {}
    /\ user' = "None"
    /\ pc' = "active"
    /\ last' = [op |-> "delete", res |-> "ok"]
    /\ UNCHANGED <<kind, caps, control, interfaces, rosAddrs, connected,
                   todo, snap, sent, notified, ifCalls, lastNote, arg, nops,
                   ifBehav, request,
                   threads, exclusive>>

\* Lines 133-134: the value stored in self._user and self._control.
Cleared == "None"

\* delete(), after the loop.
deleteEnd ==
    /\ pc = "deleting"
    /\ todo = {}
    /\ user' = Cleared
    /\ control' = Cleared
    /\ pc' = "active"
    /\ last' = [op |-> "delete", res |-> "ok"]
    /\ UNCHANGED <<kind, caps, interfaces, rosAddrs, connected, todo, snap,
                   sent, notified, ifCalls, lastNote, arg, nops, ifBehav,
                   request,
                   threads, exclusive>>

(* ----------------------------- ROSEnvProxy ---------------------------- *)

\* Mutant: reserveAddr without the check.
reserveAddrNoCheck(addr) == FALSE

\* Line 401: the check of reserveAddr.
reserveAddrRaises(addr) == addr \in rosAddrs

reserveAddr(addr) ==
    /\ Idle
    /\ IsEnv(kind)
    /\ sent' = <<>>
    /\ notified' = <<>>
    /\ ifCalls' = <<>>
    /\ IF reserveAddrRaises(addr)
       THEN /\ Returned("reserveAddr", "ValueError",
                        [NoArg EXCEPT !.a = addr])
            /\ UNCHANGED rosAddrs
       ELSE /\ rosAddrs' = rosAddrs \cup {addr}
            /\ Returned("reserveAddr", "ok", [NoArg EXCEPT !.a = addr])
    /\ UNCHANGED <<pc, kind, caps, user, control, interfaces, connected,
                   todo, snap, lastNote, ifBehav, request,
                   threads, exclusive>>

freeAddr(addr) ==
    /\ Idle
    /\ IsEnv(kind)
    /\ sent' = <<>>
    /\ notified' = <<>>
    /\ ifCalls' = <<>>
    /\ rosAddrs' = freeAddrResult(addr)
    /\ Returned("freeAddr", "ok", [NoArg EXCEPT !.a = addr])
    /\ UNCHANGED <<pc, kind, caps, user, control, interfaces, connected,
                   todo, snap, lastNote, ifBehav, request,
                   threads, exclusive>>

\* A method call on self._control: AttributeError once it is None.
ControlCall(op, a, cmd) ==
    /\ notified' = <<>>
    /\ ifCalls' = <<>>
    /\ IF control = "None"
       THEN /\ sent' = <<>>
            /\ Returned(op, "AttributeError", a)
       ELSE /\ sent' = <<cmd>>
            /\ Returned(op, "ok", a)

(* ------------------------- Python str methods ------------------------- *)

UpperChars == <<"A", "B", "C", "D", "E", "F", "G", "H", "I", "J", "K",
              "L", "M", "N", "O", "P", "Q", "R", "S", "T", "U", "V",
              "W", "X", "Y", "Z">>

LowerChars == <<"a", "b", "c", "d", "e", "f", "g", "h", "i", "j", "k",
              "l", "m", "n", "o", "p", "q", "r", "s", "t", "u", "v",
              "w", "x", "y", "z">>

DigitChars == <<"0", "1", "2", "3", "4", "5", "6", "7", "8", "9">>

\* The vertical tab, as one element of a string.
VerticalTab == "U+000B"

\* string.whitespace: what str.strip(), int() and float() skip.
Whitespace == {" ", "\t", "\n", "\r", "\f", VerticalTab}

\* A character outside ASCII, as one element of a unicode object.
NonAscii == "U+00E9"

\* Its upper case: u'\xe9'.upper() == u'\xc9'.
NonAsciiUpper == "U+00C9"

Range(f) == {f[i] : i \in DOMAIN f}

\* ch.lower()
lowerChar(ch) ==
    IF ch \in Range(UpperChars)
    THEN LowerChars[CHOOSE i \in DOMAIN UpperChars : UpperChars[i] = ch]
    ELSE IF ch = NonAsciiUpper THEN NonAscii
    ELSE ch

\* ch.upper()
upperChar(ch) ==
    IF ch \in Range(LowerChars)
    THEN UpperChars[CHOOSE i \in DOMAIN LowerChars : LowerChars[i] = ch]
    ELSE IF ch = NonAscii THEN NonAsciiUpper
    ELSE ch

\* cs.lower()
lower(cs) == [i \in DOMAIN cs |-> lowerChar(cs[i])]

\* cs.upper()
upper(cs) == [i \in DOMAIN cs |-> upperChar(cs[i])]

RECURSIVE lstrip(_)
lstrip(cs) ==
    IF cs # <<>> /\ Head(cs) \in Whitespace THEN lstrip(Tail(cs)) ELSE cs

RECURSIVE rstrip(_)
rstrip(cs) ==
    IF cs # <<>> /\ cs[Len(cs)] \in Whitespace
    THEN rstrip(SubSeq(cs, 1, Len(cs) - 1))
    ELSE cs

\* cs.strip()
strip(cs) == rstrip(lstrip(cs))

\* cs.split(sep): the pieces between the occurrences of sep.
RECURSIVE split(_, _)
split(cs, sep) ==
    IF \E i \in DOMAIN cs : cs[i] = sep
    THEN LET k == CHOOSE i \in DOMAIN cs :
                      cs[i] = sep /\ \A j \in 1..(i - 1) : cs[j] # sep
         IN <<SubSeq(cs, 1, k - 1)>> \o split(SubSeq(cs, k + 1, Len(cs)), sep)
    ELSE <<cs>>

\* str(u) of a unicode object succeeds when every character is ASCII.
IsAscii(cs) == \A i \in DOMAIN cs : cs[i] \notin {NonAscii, NonAsciiUpper}

(* ------------------------- rosgraph.names ----------------------------- *)

\* The character class \w of the pattern.
WordChars == Range(UpperChars) \cup Range(LowerChars) \cup Range(DigitChars)
             \cup {"_"}

\* is_legal_name: None is illegal, '' is legal, otherwise the whole name
\* matches ^[\~\/A-Za-z][\w\/]*$ and holds no '//'; the pattern raises
\* TypeError for an object that is no string.
is_legal_name(name) ==
    IF name.t = "NoneType" THEN Ok(PyBool(FALSE))
    ELSE IF name.t \notin {"str", "unicode"} THEN Raise("TypeError")
    ELSE IF name.s = <<>> THEN Ok(PyBool(TRUE))
    ELSE Ok(PyBool(
             /\ name.s[1] \in {"~", "/"} \cup Range(UpperChars)
                                   \cup Range(LowerChars)
             /\ \A i \in 2..Len(name.s) : name.s[i] \in WordChars \cup {"/"}
             /\ ~ \E i \in 1..(Len(name.s) - 1) :
                      name.s[i] = "/" /\ name.s[i + 1] = "/"))

(* ------------------------------ str.format ---------------------------- *)

\* '...{0}...'.format(x, ...) of a str template encodes a unicode argument
\* as ASCII and raises UnicodeEncodeError when it cannot.
formatFails(xs) ==
    \E i \in DOMAIN xs : xs[i].t = "unicode" /\ ~IsAscii(xs[i].s)

\* A call that raises e before it reaches the control.
Raises(op, e, a) ==
    /\ Returned(op, e, a)
    /\ sent' = <<>>
    /\ notified' = <<>>
    /\ ifCalls' = <<>>

(* ----------------------- removeNode, removeParameter ------------------ *)

\* Lines 277-279: the log message is formatted first, then the control is
\* called.
removeNode(tag) ==
    /\ Idle
    /\ IsEnv(kind)
    /\ IF formatFails(<<tag, CommID>>)
       THEN Raises("removeNode", "UnicodeEncodeError",
                   [NoArg EXCEPT !.node = <<tag>>])
       ELSE ControlCall("removeNode", [NoArg EXCEPT !.node = <<tag>>],
                        Command("removeNode", "str", <<tag>>))
    /\ UNCHANGED <<pc, kind, caps, user, control, interfaces, rosAddrs,
                   connected, todo, snap, lastNote, ifBehav, request,
                   threads, exclusive>>

\* Lines 389-391: the log message is formatted first, then the control is
\* called.
removeParameter(name) ==
    /\ Idle
    /\ IsEnv(kind)
    /\ IF formatFails(<<name, CommID>>)
       THEN Raises("removeParameter", "UnicodeEncodeError",
                   [NoArg EXCEPT !.par = <<name>>])
       ELSE ControlCall("removeParameter", [NoArg EXCEPT !.par = <<name>>],
                        Command("removeParameter", "str", <<name>>))
    /\ UNCHANGED <<pc, kind, caps, user, control, interfaces, rosAddrs,
                   connected, todo, snap, lastNote, ifBehav, request,
                   threads, exclusive>>

(* ------------------------------- addNode ------------------------------ *)

\* Lines 233-259: str(x) of a unicode argument; other objects pass.
toStr(x) == IF x.t = "unicode" THEN PyStr(x.s) ELSE x

\* Lines 233-265: the exception addNode raises before it builds the
\* command, or "".  A unicode pkg, exe, name or namespace that str() rejects
\* enters an except clause whose message is formatted with the same object,
\* so the UnicodeEncodeError of format() leaves the method, not the
\* InvalidRequest.  The namespace check of lines 261-263 formats the
\* converted namespace; the log message of line 265 formats pkg, exe, tag.
addNodeRaises(tag, pkg, exe, name, namespace) ==
    IF \E x \in {pkg, exe, name, namespace} :
           x.t = "unicode" /\ ~IsAscii(x.s) /\ formatFails(<<x>>)
    THEN "UnicodeEncodeError"
    ELSE IF is_legal_name(toStr(namespace)).err # ""
    THEN is_legal_name(toStr(namespace)).err
    ELSE IF is_legal_name(toStr(namespace)).v.n = 0
    THEN IF formatFails(<<toStr(namespace)>>) THEN "UnicodeEncodeError"
         ELSE "InvalidRequest"
    ELSE IF formatFails(<<toStr(pkg), toStr(exe), tag, CommID>>)
    THEN "UnicodeEncodeError"
    ELSE ""

\* Lines 267-268: NodeCommand(tag, pkg, exe, args, name, namespace).
NodeCommand(tag, pkg, exe, args, name, namespace) ==
    Command("addNode", "NodeCommand",
            <<tag, toStr(pkg), toStr(exe), args, toStr(name),
              toStr(namespace)>>)

addNode(tag, pkg, exe, args, name, namespace) ==
    /\ Idle
    /\ IsEnv(kind)
    /\ IF addNodeRaises(tag, pkg, exe, name, namespace) # ""
       THEN Raises("addNode", addNodeRaises(tag, pkg, exe, name, namespace),
                   [NoArg EXCEPT !.node = <<tag, pkg, exe, args, name,
                                            namespace>>])
       ELSE ControlCall("addNode",
                        [NoArg EXCEPT !.node = <<tag, pkg, exe, args, name,
                                                 namespace>>],
                        NodeCommand(tag, pkg, exe, args, name, namespace))
    /\ UNCHANGED <<pc, kind, caps, user, control, interfaces, rosAddrs,
                   connected, todo, snap, lastNote, ifBehav, request,
                   threads, exclusive>>

(* --------------------------- int() and float() ------------------------ *)

DigitVal(ch) == (CHOOSE i \in DOMAIN DigitChars : DigitChars[i] = ch) - 1

IsDigits(cs) == cs # <<>> /\ \A i \in DOMAIN cs : cs[i] \in Range(DigitChars)

RECURSIVE DigitsValue(_)
DigitsValue(cs) ==
    IF cs = <<>> THEN 0
    ELSE DigitsValue(SubSeq(cs, 1, Len(cs) - 1)) * 10 + DigitVal(cs[Len(cs)])

Unsigned(cs) == IF cs # <<>> /\ Head(cs) \in {"+", "-"} THEN Tail(cs) ELSE cs

Sign(cs) == IF cs # <<>> /\ Head(cs) = "-" THEN -1 ELSE 1

\* int(s) of a string, base 10: whitespace, an optional sign, whitespace
\* again (the C conversion skips it after the sign too), decimal digits,
\* whitespace.  The digits must fit the integers of the checker (9 digits).
parseInt(cs) ==
    LET b == strip(cs)
        d == lstrip(Unsigned(b))
    IN IF IsDigits(d)
       THEN Ok(PyInt(Sign(b) * DigitsValue(d)))
       ELSE Raise("ValueError")

RECURSIVE Pow10(_)
Pow10(k) == IF k <= 0 THEN 1 ELSE 10 * Pow10(k - 1)

RECURSIVE NumDigits(_)
NumDigits(i) == IF i < 10 THEN 1 ELSE 1 + NumDigits(i \div 10)

\* Leading zeros of the integer part and trailing zeros of the fraction do
\* not change the number.
RECURSIVE DropLeadingZeros(_)
DropLeadingZeros(cs) ==
    IF cs # <<>> /\ Head(cs) = "0" THEN DropLeadingZeros(Tail(cs)) ELSE cs

RECURSIVE DropTrailingZeros(_)
DropTrailingZeros(cs) ==
    IF cs # <<>> /\ cs[Len(cs)] = "0"
    THEN DropTrailingZeros(SubSeq(cs, 1, Len(cs) - 1))
    ELSE cs

(* ---------------------- doubles below 1e-308 -------------------------- *)

\* Below 2^-1022 a double is a multiple of 2^-1074 and float() rounds the
\* decimal number to the nearest one.  The numbers are compared exactly, as
\* integers in units of 10^-1075 held in BigLen limbs of eight decimal
\* digits, the least significant limb first.
BigBase == 100000000

BigLen == 97

\* 2^-1075, half the distance of two such doubles: 5^1075 units.
HalfUlp ==
    <<36328125, 13276672, 53209859, 37693412, 28261454, 21383772,
      85451396, 10285131, 4970582, 94968324, 69486679, 25477918,
      13690836, 72551893, 52445550, 55995657, 56283027, 38858792,
      35089863, 84976682, 1867234, 80423891, 62393732, 88187963,
      12623653, 62395249, 38659164, 65391711, 8490487, 53005753,
      91840300, 19144672, 15968046, 78604162, 42237666, 51666113,
      35537458, 89513405, 67360096, 40176324, 5775067, 96776193,
      36339007, 73934507, 22623785, 20828166, 94704540, 97709659,
      6485499, 563740, 27282722, 22766465, 35795746, 24659726,
      78015531, 84093519, 92783433, 58551332, 19282795, 90370631,
      85769269, 7570015, 86365848, 65623669, 82492193, 37045767,
      52500319, 99365361, 93180284, 5184435, 83924491, 39229085,
      15570226, 50356595, 9390631, 39800539, 98199387, 51779698,
      46332835, 22858865, 82823477, 99618989, 18180817, 59326499,
      63510437, 50337753, 27928412, 16238221, 29901307, 6861825,
      39643411, 72088284, 29206232, 24703282, 0, 0,
      0>>

\* The highest limb up to i where a and b differ, 0 when there is none.
RECURSIVE BigTopDiff(_, _, _)
BigTopDiff(a, b, i) ==
    IF i = 0 THEN 0
    ELSE IF a[i] # b[i] THEN i
    ELSE BigTopDiff(a, b, i - 1)

BigLess(a, b) ==
    LET j == BigTopDiff(a, b, BigLen)
    IN j > 0 /\ a[j] < b[j]

\* a - b for a >= b: a limb borrows when the limbs below it are less.
BigSub(a, b) ==
    SubSeq([i \in 1..BigLen |->
               LET j == BigTopDiff(a, b, i - 1)
                   d == a[i] - b[i] - (IF j > 0 /\ a[j] < b[j] THEN 1 ELSE 0)
               IN IF d < 0 THEN d + BigBase ELSE d],
           1, BigLen)

\* The highest limb up to i whose sum does not pass a carry on unchanged.
RECURSIVE BigTopCarry(_, _, _)
BigTopCarry(a, b, i) ==
    IF i = 0 THEN 0
    ELSE IF a[i] + b[i] # BigBase - 1 THEN i
    ELSE BigTopCarry(a, b, i - 1)

BigAdd(a, b) ==
    SubSeq([i \in 1..BigLen |->
               LET j == BigTopCarry(a, b, i - 1)
                   c == IF j > 0 /\ a[j] + b[j] >= BigBase THEN 1 ELSE 0
               IN (a[i] + b[i] + c) % BigBase],
           1, BigLen)

BigTimes10(a) ==
    SubSeq([i \in 1..BigLen |->
               10 * (a[i] % (BigBase \div 10))
               + (IF i > 1 THEN a[i - 1] \div (BigBase \div 10) ELSE 0)],
           1, BigLen)

\* mant * 10^k as limbs.
BigShift(mant, k) ==
    SubSeq([i \in 1..BigLen |->
               LET s == k - 8 * (i - 1)
               IN IF s >= 8 \/ s <= -10 THEN 0
                  ELSE IF s >= 0 THEN (mant % Pow10(8 - s)) * Pow10(s)
                  ELSE (mant \div Pow10(-s)) % BigBase],
           1, BigLen)

\* r reduced below HalfUlp and the number of subtractions it took added to
\* t.  (A value bound by \in {..} is computed once, where it is bound.)
RECURSIVE BigReduce(_, _)
BigReduce(r, t) ==
    IF BigLess(r, HalfUlp) THEN <<r, t>>
    ELSE CHOOSE res \in {BigReduce(s, t + 1) : s \in {BigSub(r, HalfUlp)}} :
             TRUE

\* One step of the long division by HalfUlp, for r < HalfUlp: the
\* remainder and the quotient digit of 10 * r.
BigStep(r) == CHOOSE res \in {BigReduce(s, 0) : s \in {BigTimes10(r)}} : TRUE

\* Long division by HalfUlp of r followed by j zeros, r < HalfUlp: the
\* remainder and the last digit of the quotient.
RECURSIVE BigDivide(_, _, _)
BigDivide(r, j, t) ==
    IF j = 0 THEN <<r, t>>
    ELSE CHOOSE res \in {BigDivide(s[1], j - 1, s[2]) : s \in {BigStep(r)}} :
             TRUE

\* The decimal digit of weight 10^(p-1).
BigDigit(a, p) == (a[(p - 1) \div 8 + 1] \div Pow10((p - 1) % 8)) % 10

\* The number written by the digits from place p upwards.
RECURSIVE BigFrom(_, _)
BigFrom(a, p) ==
    IF p > 8 * BigLen THEN 0
    ELSE IF \A i \in ((p - 1) \div 8 + 1)..BigLen :
                a[i] \div (IF i = (p - 1) \div 8 + 1
                           THEN Pow10((p - 1) % 8) ELSE 1) = 0
    THEN 0
    ELSE BigDigit(a, p) + 10 * BigFrom(a, p + 1)

\* The shortest decimal number strictly between lo and hi, and of several
\* the one nearest to x, lo < x < hi: it ends at the highest place where lo
\* and hi differ.  The result is <<c, k>> for c * 10^(k - 1) units.
BigShortest(lo, x, hi) ==
    LET limb == BigTopDiff(lo, hi, BigLen)
        place == CHOOSE p \in (8 * limb - 7)..(8 * limb) :
                    /\ BigDigit(lo, p) # BigDigit(hi, p)
                    /\ \A k \in (p + 1)..(8 * limb) :
                          BigDigit(lo, k) = BigDigit(hi, k)
        least == BigFrom(lo, place) + 1
        most == BigFrom(hi, place)
        near == BigFrom(x, place)
                + (IF BigDigit(x, place - 1) >= 5 THEN 1 ELSE 0)
    IN <<IF near < least THEN least
         ELSE IF near > most THEN most ELSE near,
         place>>

\* The double nearest to V units, V >= HalfUlp, as the shortest decimal
\* number that float() reads back as that double (the one repr() shows).
\* With r the remainder and t the last quotient digit of V by HalfUlp, the
\* double is the even multiple x of HalfUlp between the odd multiples lo
\* and hi around V.
BigNearest(V, r, t) ==
    CHOOSE res \in
        {BigShortest(lo, x, hi) :
            lo \in {IF t % 2 = 1 THEN q ELSE BigSub(q, HalfUlp) :
                       q \in {BigSub(V, r)}},
            x \in {IF t % 2 = 1 THEN BigAdd(q, HalfUlp) ELSE q :
                      q \in {BigSub(V, r)}},
            hi \in {BigAdd(q, HalfUlp) :
                       q \in {IF t % 2 = 1 THEN BigAdd(q0, HalfUlp) ELSE q0 :
                                 q0 \in {BigSub(V, r)}}}} : TRUE

\* The double nearest to sign * mant * 10^ex below 1e-308: float() rounds to
\* the nearest multiple of 2^-1074, to 0.0 below half of it.
Subnormal(sign, mant, ex) ==
    CHOOSE res \in
        {IF BigLess(V, HalfUlp) THEN PyFloat(0, 0)
         ELSE CHOOSE f \in
                  {PyFloat(sign * c[1], c[2] - 1076) :
                      c \in {BigNearest(V, dv[1], dv[2]) :
                                dv \in {BigDivide(r0, ex + 1075 - 741, 0)}}} :
                  TRUE :
            V \in {BigShift(mant, ex + 1075)},
            r0 \in {BigShift(mant, 741)}} : TRUE

\* The double nearest to sign * mant * 10^ex: beyond the largest double
\* (1.7976931348623157e308) it is an infinity, below half the smallest
\* (4.9e-324) it is zero, below 1e-308 it is rounded to a multiple of
\* 2^-1074.  From 1e-308 on the decimal number stands for its double: two
\* numbers of at most ten digits never share one.
ToDouble(sign, mant, ex) ==
    LET p == FloatNorm(mant, ex)
        d == NumDigits(p[1])
        top == p[2] + d - 1
        lead == IF d > 9 THEN p[1] \div 10 ELSE p[1] * Pow10(9 - d)
        tenth == IF d > 9 THEN p[1] % 10 ELSE 0
    IN IF mant = 0 THEN PyFloat(0, 0)
       ELSE IF \/ top > 308
               \/ /\ top = 308
                  /\ \/ lead > 179769313
                     \/ lead = 179769313 /\ tenth >= 5
       THEN PyFloatSpecial(IF sign < 0 THEN "-inf" ELSE "inf")
       ELSE IF top < -324 THEN PyFloat(0, 0)
       ELSE IF top < -308 THEN Subnormal(sign, p[1], p[2])
       ELSE PyFloat(sign * p[1], p[2])

\* float(s) of a string: whitespace around, an optional sign, then "inf",
\* "infinity" or "nan" in any case, or decimal digits with an optional point
\* (a digit on at least one side) and an optional exponent e[sign]digits.
parseFloat(cs) ==
    LET b == lower(strip(cs))
        u == Unsigned(b)
        byExp == split(u, "e")
        parts == split(byExp[1], ".")
        whole == parts[1]
        frac == IF Len(parts) = 2 THEN parts[2] ELSE <<>>
        expo == IF Len(byExp) = 2 THEN byExp[2] ELSE <<>>
        digits == DropLeadingZeros(whole) \o DropTrailingZeros(frac)
        shift == (IF Len(byExp) = 2
                  THEN Sign(expo) * DigitsValue(Unsigned(expo)) ELSE 0)
                 - Len(DropTrailingZeros(frac))
    IN IF u \in {<<"i", "n", "f">>,
                 <<"i", "n", "f", "i", "n", "i", "t", "y">>}
       THEN Ok(PyFloatSpecial(IF Sign(b) < 0 THEN "-inf" ELSE "inf"))
       ELSE IF u = <<"n", "a", "n">> THEN Ok(PyFloatSpecial("nan"))
       ELSE IF /\ Len(byExp) <= 2
               /\ Len(parts) <= 2
               /\ whole = <<>> \/ IsDigits(whole)
               /\ frac = <<>> \/ IsDigits(frac)
               /\ whole # <<>> \/ frac # <<>>
               /\ Len(byExp) = 2 => IsDigits(Unsigned(expo))
       THEN Ok(ToDouble(Sign(b), DigitsValue(digits), shift))
       ELSE Raise("ValueError")

\* int(x) of a float: truncation towards zero; no integer for an infinity
\* (OverflowError) or a nan (ValueError).
floatToInt(value) ==
    IF value.s # <<>>
    THEN IF value.s = <<"nan">> THEN Raise("ValueError")
         ELSE Raise("OverflowError")
    ELSE IF value.e >= 0 THEN Ok(PyInt(value.n * Pow10(value.e)))
    ELSE IF -value.e > 9 THEN Ok(PyInt(0))
    ELSE IF value.n >= 0 THEN Ok(PyInt(value.n \div Pow10(-value.e)))
    ELSE Ok(PyInt(-((-value.n) \div Pow10(-value.e))))

\* int(value)
pyInt(value) ==
    CASE value.t = "int" -> Ok(value)
      [] value.t = "bool" -> Ok(PyInt(value.n))
      [] value.t = "float" -> floatToInt(value)
      [] value.t \in {"str", "unicode"} -> parseInt(value.s)
      [] OTHER -> Raise("TypeError")

\* float(value)
pyFloat(value) ==
    CASE value.t \in {"int", "bool"} -> Ok(PyFloat(value.n, 0))
      [] value.t = "float" -> Ok(value)
      [] value.t \in {"str", "unicode"} -> parseFloat(value.s)
      [] OTHER -> Raise("TypeError")

(* ------------------------- parameter coercion ------------------------- *)

_castStr(value) ==
    CASE value.t = "str" -> Ok(value)
      [] value.t = "unicode" ->
            IF IsAscii(value.s) THEN Ok(PyStr(value.s))
            ELSE Raise("ValueError")
      [] OTHER -> Raise("ValueError")

_castBool(value) ==
    IF value.t \in {"str", "unicode"}
    THEN LET v == lower(strip(value.s))
         IN IF v = <<"t", "r", "u", "e">> THEN Ok(PyBool(TRUE))
            ELSE IF v = <<"f", "a", "l", "s", "e">> THEN Ok(PyBool(FALSE))
            ELSE Raise("ValueError")
    ELSE LET r == pyInt(value)
         IN IF r.err = "" THEN Ok(PyBool(r.v.n # 0)) ELSE r

_cast(value, paramType) ==
    CASE paramType = <<"i", "n", "t">> -> pyInt(value)
      [] paramType = <<"s", "t", "r">> -> _castStr(value)
      [] paramType = <<"f", "l", "o", "a", "t">> -> pyFloat(value)
      [] paramType = <<"b", "o", "o", "l">> -> _castBool(value)
      [] OTHER -> Raise("ValueError")

(* ----------------------------- addParameter --------------------------- *)

\* Line 358: the test for the array form.
IsArrayType(pt) == pt[1] = "[" /\ pt[Len(pt)] = "]"

\* Lines 359-364: the list of type tokens.
TypeTokens(pt) ==
    IF IsArrayType(pt)
    THEN LET pieces == split(SubSeq(pt, 2, Len(pt) - 1), ",")
         IN [i \in DOMAIN pieces |-> strip(pieces[i])]
    ELSE <<pt>>

\* Whether len(value) is defined.
HasLen(value) == value.t \in {"list", "str", "unicode"}

\* The elements zip() draws from value: of a string, its characters.
Elements(value) ==
    IF value.t = "list" THEN value.items
    ELSE [i \in DOMAIN value.s |->
              [t |-> value.t, n |-> 0, e |-> 0, s |-> <<value.s[i]>>,
               items |-> <<>>]]

\* Line 372: the casts of the pairs, in order.
CastAll(elems, tokens) == [i \in DOMAIN elems |-> _cast(elems[i], tokens[i])]

\* Mutant: the type code built without upper().
TypeCodeNoUpper(tokens) == [i \in DOMAIN tokens |-> tokens[i][1]]

\* Line 373: the composite type code.
TypeCode(tokens) == [i \in DOMAIN tokens |-> upper(tokens[i])[1]]

\* Lines 349-376: the exception raised, or the command object built.  The
\* message of line 350 is formatted with the name; an object without
\* strip() as paramType raises AttributeError at line 352; of the exceptions
\* raised inside the try only ValueError becomes InvalidRequest.
BuildParam(name, value, paramType) ==
    LET pt == strip(paramType.s)
    IN IF is_legal_name(name).err # ""
       THEN [err |-> is_legal_name(name).err, cmd |-> <<>>]
       ELSE IF is_legal_name(name).v.n = 0
       THEN [err |-> IF formatFails(<<name>>) THEN "UnicodeEncodeError"
                     ELSE "InvalidRequest",
             cmd |-> <<>>]
       ELSE IF paramType.t \notin {"str", "unicode"}
       THEN [err |-> "AttributeError", cmd |-> <<>>]
       ELSE IF pt = <<"f", "i", "l", "e">>
       THEN IF _castStr(value).err # ""
            THEN [err |-> "InvalidRequest", cmd |-> <<>>]
            ELSE [err |-> "",
                  cmd |-> <<Command("addParameter", "FileCommand",
                                    <<name, _castStr(value).v>>)>>]
       ELSE IF pt = <<>> THEN [err |-> "IndexError", cmd |-> <<>>]
       ELSE LET tokens == TypeTokens(pt)
                vals == IF IsArrayType(pt) THEN value ELSE PyList(<<value>>)
            IN IF ~HasLen(vals) THEN [err |-> "TypeError", cmd |-> <<>>]
               ELSE IF Len(Elements(vals)) # Len(tokens)
               THEN [err |-> "InvalidRequest", cmd |-> <<>>]
               ELSE LET casts == CastAll(Elements(vals), tokens)
                        bad == {i \in DOMAIN casts : casts[i].err # ""}
                    IN IF bad # {}
                       THEN LET first == CHOOSE i \in bad :
                                             \A j \in bad : i <= j
                            IN [err |-> IF casts[first].err = "ValueError"
                                        THEN "InvalidRequest"
                                        ELSE casts[first].err,
                                cmd |-> <<>>]
                       ELSE [err |-> "",
                             cmd |-> <<Command("addParameter",
                                 IF IsArrayType(pt) THEN "ArrayCommand"
                                 ELSE "ParameterCommand",
                                 <<name,
                                   PyList([i \in DOMAIN casts |-> casts[i].v]),
                                   [t |-> paramType.t, n |-> 0,
                                    e |-> 0, s |-> TypeCode(tokens),
                                    items |-> <<>>]>>)>>]

addParameter(name, value, paramType) ==
    /\ Idle
    /\ IsEnv(kind)
    /\ IF BuildParam(name, value, paramType).err # ""
       THEN Raises("addParameter", BuildParam(name, value, paramType).err,
                   [NoArg EXCEPT !.par = <<name, value, paramType>>])
       ELSE ControlCall("addParameter",
                        [NoArg EXCEPT !.par = <<name, value, paramType>>],
                        BuildParam(name, value, paramType).cmd[1])
    /\ UNCHANGED <<pc, kind, caps, user, control, interfaces, rosAddrs,
                   connected, todo, snap, lastNote, ifBehav, request,
                   threads, exclusive>>

(* ---------------------------- ContainerProxy -------------------------- *)

\* Mutant: the check guards every call instead of the calls with flag set.
setConnectedFlagRaisesAnyFlag(flag) == connected

\* Line 466: the check guarding a repeated "connected" announcement.
setConnectedFlagRaises(flag) == flag /\ connected

setConnectedFlag(flag) ==
    /\ Idle
    /\ kind = "Container"
    /\ sent' = <<>>
    /\ ifCalls' = <<>>
    /\ IF setConnectedFlagRaises(flag)
       THEN /\ Returned("setConnectedFlag", "InvalidRequest",
                        [NoArg EXCEPT !.flag = flag])
            /\ notified' = <<>>
            /\ UNCHANGED <<connected, lastNote>>
       ELSE /\ connected' = flag
            /\ IF user = "None"
               THEN /\ Returned("setConnectedFlag", "AttributeError",
                                [NoArg EXCEPT !.flag = flag])
                    /\ notified' = <<>>
                    /\ UNCHANGED lastNote
               ELSE /\ notified' = <<[uid |-> Uid, flag |-> flag]>>
                    /\ lastNote' = IF flag THEN "true" ELSE "false"
                    /\ Returned("setConnectedFlag", "ok",
                                [NoArg EXCEPT !.flag = flag])
    /\ UNCHANGED <<pc, kind, caps, user, control, interfaces, rosAddrs,
                   todo, snap, ifBehav, request,
                   threads, exclusive>>

(* ---------------------------- specification --------------------------- *)

\* Longest array of type tokens and of values offered to addParameter.
MaxArrayLen == 2

\* Tags: str objects and a unicode object outside ASCII.
Tags == {PyStr(<<"t", "1">>), PyStr(<<"t", "2">>), PyUnicode(<<NonAscii>>)}

\* Names: legal ones, illegal ones (a leading digit, a '//', a character
\* outside ASCII), and an object that is no string.
LegalName == PyStr(<<"/", "n", "s", "/", "p">>)

IllegalName == PyStr(<<"1", "2", "3", "b", "a", "d", "!">>)

Names == {LegalName, IllegalName, PyStr(<<"a", "/", "/", "b">>), PyStr(<<>>),
          PyUnicode(<<"/", "n", "s">>), PyUnicode(<<"/", NonAscii>>),
          PyInt(5)}

\* Package, executable and node names: str, unicode, unicode outside ASCII.
Words(cs) == {PyStr(cs), PyUnicode(cs), PyUnicode(<<NonAscii>> \o cs)}

\* The requests offered to addNode: <<tag, pkg, exe, args, name, namespace>>.
NodeInputs ==
    Tags \X Words(<<"p", "k", "g">>) \X Words(<<"e", "x", "e">>)
         \X {PyStr(<<"-", "v">>)} \X Words(<<"n", "o", "d", "e">>) \X Names

\* The few tags and names offered while the other operations run.
TagsSmall == {PyStr(<<"t", "1">>), PyUnicode(<<NonAscii>>)}

NamesSmall == {LegalName, PyUnicode(<<"/", NonAscii>>)}

\* The few requests offered while the other operations run.
NodeInputsSmall ==
    {<<PyStr(<<"t", "1">>), PyStr(<<"p", "k", "g">>),
       PyUnicode(<<"e", "x", "e">>), PyStr(<<"-", "v">>),
       PyStr(<<"n", "o", "d", "e">>), ns>> :
         ns \in {LegalName, IllegalName}}

\* Type tokens: the four scalar types and the sentinel "file".
ScalarTokens == {<<"i", "n", "t">>, <<"s", "t", "r">>,
                 <<"f", "l", "o", "a", "t">>, <<"b", "o", "o", "l">>}

Tokens == ScalarTokens \cup {<<"f", "i", "l", "e">>}

RECURSIVE Join(_, _)
Join(pieces, sep) ==
    IF pieces = <<>> THEN <<>>
    ELSE IF Len(pieces) = 1 THEN pieces[1]
    ELSE pieces[1] \o <<sep>> \o Join(Tail(pieces), sep)

ArrayType(tokens) == <<"[">> \o Join(tokens, ",") \o <<"]">>

TokenLists == UNION {[1..n -> Tokens] : n \in 0..MaxArrayLen}

\* The type specifications offered: bare tokens, arrays, and odd ones.
ParamTypes ==
    {PyStr(t) : t \in Tokens}
    \cup {PyStr(ArrayType(ts)) : ts \in TokenLists}
    \cup {PyStr(<<>>), PyStr(<<" ">>), PyStr(<<"[">>), PyStr(<<"x">>),
          PyStr(<<"I", "n", "t">>), PyStr(<<" ", "i", "n", "t", " ">>),
          PyStr(<<"[", " ", "i", "n", "t", " ", ",", " ", "s", "t", "r",
                  " ", "]">>),
          PyStr(<<"[", "i", "n", "t", ",", "x", "]">>),
          PyStr(<<"[", "\f", "i", "n", "t", "]">>), PyNone,
          PyUnicode(<<"[", "i", "n", "t", ",", "s", "t", "r", "]">>),
          PyStr(<<"[", "i", "n", "t", ",", "s", "t", "r", ",", "b", "o", "o",
                  "l", "]">>)}

\* Values offered as array elements.
ElemPool == {PyStr(<<"5">>), PyStr(<<"x">>), PyBool(TRUE), PyInt(2), PyNone,
             PyFloat(15, -1)}

\* Values offered as scalars.
ScalarPool ==
    ElemPool
    \cup {PyStr(<<"t", "r", "u", "e">>),
          PyStr(<<" ", "T", "r", "u", "e", " ">>),
          PyStr(<<"F", "A", "L", "S", "E">>),
          PyStr(<<"m", "a", "y", "b", "e">>),
          PyStr(<<"1">>), PyStr(<<"0">>), PyInt(0), PyInt(-3), PyBool(FALSE),
          PyFloat(-15, -1), PyFloat(0, 0), PyStr(<<"1", ".", "5">>),
          PyStr(<<" ", "-", "1", "2", " ">>),
          PyStr(<<"x", "y">>), PyStr(<<>>), PyUnicode(<<"7">>),
          PyUnicode(<<NonAscii>>),
          PyStr(<<"-", " ", "5">>), PyStr(<<"\f", "5", "\f">>),
          PyStr(<<"1", ".", "2", "5">>), PyStr(<<"1", "e", "3">>),
          PyStr(<<"i", "n", "f">>), PyStr(<<"n", "a", "n">>),
          PyStr(<<"3", "e", "-", "3", "2", "4">>),
          PyStr(<<VerticalTab, "t", "r", "u", "e", "\f">>),
          PyFloatSpecial("inf"), PyFloatSpecial("nan")}

ValueLists == UNION {[1..n -> ElemPool] : n \in 0..MaxArrayLen}

Values ==
    ScalarPool \cup {PyList(xs) : xs \in ValueLists}
    \cup {PyList(<<PyStr(<<"5">>), PyStr(<<"x">>), PyBool(TRUE)>>)}

\* The requests offered to addParameter: <<name, value, paramType>>.
ParamInputs ==
    ({LegalName} \X Values \X ParamTypes)
    \cup ((Names \ {LegalName}) \X {PyStr(<<"5">>)}
              \X {PyStr(<<"i", "n", "t">>)})

\* The few requests offered while the other operations run.
ParamInputsSmall ==
    {<<LegalName, PyList(<<PyStr(<<"5">>), PyStr(<<"x">>)>>),
       PyStr(<<"[", "i", "n", "t", ",", "s", "t", "r", "]">>)>>,
     <<LegalName, PyStr(<<"m", "a", "y", "b", "e">>),
       PyStr(<<"b", "o", "o", "l">>)>>,
     <<IllegalName, PyInt(2), PyStr(<<"i", "n", "t">>)>>}

NoRequest == <<>>

Init ==
    /\ pc = "new"
    /\ kind = "none"
    /\ caps = {}
    /\ user = "Unset"
    /\ control = "Unset"
    /\ interfaces = {}
    /\ rosAddrs = {}
    /\ connected = FALSE
    /\ todo = {}
    /\ snap = {}
    /\ sent = <<>>
    /\ notified = <<>>
    /\ ifCalls = <<>>
    /\ lastNote = "none"
    /\ last = [op |-> "none", res |-> "none"]
    /\ arg = NoArg
    /\ nops = 0
    /\ ifBehav \in [Handles -> IfaceBehaviours]
    /\ request = NoRequest
    /\ threads = NoThreads
    /\ exclusive = TRUE

Next ==
    \/ \E k \in Kinds, c \in SUBSET Capabilities : Construct(k, c)
    \/ \E h \in Handles : registerInterface(h)
    \/ \E h \in Handles : unregisterInterface(h)
    \/ deleteBegin
    \/ \E h \in Handles : deleteStep(h)
    \/ deleteEnd
    \/ \E a \in Addrs : reserveAddr(a)
    \/ \E a \in Addrs : freeAddr(a)
    \/ \E in \in NodeInputsSmall :
           addNode(in[1], in[2], in[3], in[4], in[5], in[6])
    \/ \E t \in TagsSmall : removeNode(t)
    \/ \E in \in ParamInputsSmall : addParameter(in[1], in[2], in[3])
    \/ \E n \in NamesSmall : removeParameter(n)
    \/ \E f \in BOOLEAN : setConnectedFlag(f)

Spec == Init /\ [][Next]_vars

\* The requests one by one: a caller holds one request and issues it on
\* an environment proxy.
InitRequest(inputs) ==
    /\ pc = "new"
    /\ kind = "none"
    /\ caps = {}
    /\ user = "Unset"
    /\ control = "Unset"
    /\ interfaces = {}
    /\ rosAddrs = {}
    /\ connected = FALSE
    /\ todo = {}
    /\ snap = {}
    /\ sent = <<>>
    /\ notified = <<>>
    /\ ifCalls = <<>>
    /\ lastNote = "none"
    /\ last = [op |-> "none", res |-> "none"]
    /\ arg = NoArg
    /\ nops = 0
    /\ ifBehav = [h \in Handles |-> "plain"]
    /\ request \in inputs
    /\ threads = NoThreads
    /\ exclusive = TRUE

InitParam == InitRequest(ParamInputs)

NextParam ==
    \/ Construct("ROSEnv", Capabilities)
    \/ addParameter(request[1], request[2], request[3])

SpecParam == InitParam /\ [][NextParam]_vars

InitNode == InitRequest(NodeInputs)

NextNode ==
    \/ Construct("ROSEnv", Capabilities)
    \/ addNode(request[1], request[2], request[3], request[4], request[5],
               request[6])
    \/ deleteBegin
    \/ deleteEnd

SpecNode == InitNode /\ [][NextNode]_vars

(* ------------------------------- claims ------------------------------- *)

\* This step is a top-level call of op (for delete: its entry).
CallOf(op) == nops' = nops + 1 /\ last'.op = op

\* Number of delete() invocations on interface h among calls.
DeleteCount(calls, h) ==
    Cardinality({i \in DOMAIN calls : calls[i].m = "delete" /\ calls[i].h = h})

\* delete() has completed on the proxy.
Deleted == pc = "active" /\ user = "None"

\* C1: delete() iterates the set S of interfaces registered when it is
\* called, invokes delete() exactly once on each interface of S and on no
\* other, and self._user and self._control are cleared only in the step
\* after all of these invocations have returned, for every class of proxy.
C1_DeleteCascade ==
    [][/\ (pc = "active" /\ pc' = "deleting") => snap' = interfaces
       /\ pc' = "deleting" =>
            /\ \A h \in Handles :
                 DeleteCount(ifCalls', h) =
                     IF h \in snap' \ todo' THEN 1 ELSE 0
            /\ user' = user /\ control' = control
       /\ (pc = "deleting" /\ pc' = "active") =>
            /\ \A h \in Handles :
                 DeleteCount(ifCalls', h) = IF h \in snap THEN 1 ELSE 0
            /\ last'.res = "ok" /\ user' = "None" /\ control' = "None"
       /\ (pc # "new" /\ (user' # user \/ control' # control)) =>
            /\ pc = "deleting"
            /\ \A h \in snap : DeleteCount(ifCalls, h) = 1
      ]_vars

\* C1 witness: a delete() of a proxy with two registered interfaces has
\* returned, each was deleted once and the references are cleared.
C1_Witness ==
    /\ last = [op |-> "delete", res |-> "ok"]
    /\ pc = "active"
    /\ Cardinality(snap) >= 2
    /\ \A h \in snap : DeleteCount(ifCalls, h) = 1
    /\ user = "None" /\ control = "None"

\* The calls that dereference self._control or self._user.
NeedsReferences(op) ==
    \/ op \in {"addNode", "removeNode", "addParameter", "removeParameter",
               "setConnectedFlag"}
    \/ op = "delete" /\ kind \in {"Robot", "Container"}

\* C2: after delete() has completed, every later call on the proxy returns
\* an error.  (registerInterface of a handle that is not registered hands
\* the cleared control to registerControl of the interface object, whose
\* reaction is not decided by the proxy: that call is left out here.)
C2_Original ==
    [][(Deleted /\ nops' = nops + 1 /\ last'.op # "registerInterface") =>
          last'.res \notin {"ok", "running"}
      ]_vars

\* C2, what the code does after delete() has completed: only the calls that
\* use the cleared references fail (addNode, removeNode, addParameter,
\* removeParameter, setConnectedFlag, delete() of a RobotProxy or
\* ContainerProxy), and they reach neither the control nor the user nor an
\* interface; registerInterface, unregisterInterface, reserveAddr and
\* freeAddr are decided by the interface set and the address set alone, as
\* before the deletion, and delete() of a plain ROSEnvProxy runs again.
C2_AfterDelete ==
    [][(Deleted /\ nops' = nops + 1) =>
         /\ NeedsReferences(last'.op) =>
              /\ last'.res \in {"AttributeError", "InvalidRequest",
                                "IndexError", "TypeError", "OverflowError",
                                "UnicodeEncodeError"}
              /\ sent' = <<>> /\ notified' = <<>> /\ ifCalls' = <<>>
              /\ pc' = "active"
         /\ last'.op = "registerInterface" =>
              (last'.res = "InternalError") = (arg'.h \in interfaces)
         /\ last'.op = "unregisterInterface" =>
              (last'.res = "ok") = (arg'.h \in interfaces)
         /\ last'.op = "reserveAddr" =>
              (last'.res = "ok") = (arg'.a \notin rosAddrs)
         /\ last'.op = "freeAddr" => last'.res = "ok"
         /\ (last'.op = "delete" /\ kind = "ROSEnv") => pc' = "deleting"
      ]_vars

\* C3: registerInterface(h) with h already registered raises InternalError,
\* leaves the interface set unchanged and calls no registerControl; with h
\* absent it calls h.registerControl(self._control) exactly once and adds
\* h to the set.
C3_RegisterInterface ==
    [][\A h \in Handles :
         (CallOf("registerInterface") /\ arg'.h = h) =>
            IF h \in interfaces
            THEN /\ last'.res = "InternalError"
                 /\ interfaces' = interfaces
                 /\ ifCalls' = <<>>
            ELSE /\ last'.res = "ok"
                 /\ ifCalls' = <<[h |-> h, m |-> "registerControl",
                                  c |-> control]>>
                 /\ interfaces' = interfaces \cup {h}
                 /\ h \in interfaces'
      ]_vars

\* C3 witness: a second registerInterface of a registered handle failed.
C3_Witness ==
    /\ last = [op |-> "registerInterface", res |-> "InternalError"]
    /\ arg.h \in interfaces
    /\ ifCalls = <<>>

\* C4: unregisterInterface(h) succeeds exactly when h is in the interface
\* set; on success it removes h and nothing else, on failure it raises
\* InternalError and leaves the set unchanged; the set changes in no other
\* way than by registering or unregistering one handle, and a handle that is
\* not in the set (never registered, or unregistered since) can be
\* registered.
C4_UnregisterInterface ==
    [][/\ \A h \in Handles :
            (CallOf("unregisterInterface") /\ arg'.h = h) =>
               IF h \in interfaces
               THEN last'.res = "ok" /\ interfaces' = interfaces \ {h}
               ELSE /\ last'.res = "InternalError"
                    /\ interfaces' = interfaces
       /\ \A h \in Handles :
            (CallOf("registerInterface") /\ arg'.h = h
                /\ h \notin interfaces) =>
               last'.res = "ok" /\ h \in interfaces'
       /\ \A h \in Handles :
            (h \in interfaces /\ h \notin interfaces') =>
               \/ CallOf("unregisterInterface") /\ arg'.h = h
               \/ pc = "deleting"
       /\ \A h \in Handles :
            (h \notin interfaces /\ h \in interfaces') =>
               CallOf("registerInterface") /\ arg'.h = h
      ]_vars

\* C4 witness: an unregisterInterface of a handle that is not registered
\* failed while another handle stays registered.
C4_Witness ==
    /\ last = [op |-> "unregisterInterface", res |-> "InternalError"]
    /\ arg.h \notin interfaces
    /\ interfaces # {}

\* C5: reserveAddr(a) raises ValueError exactly when a is reserved, and then
\* leaves the reserved addresses unchanged; otherwise it adds a and nothing
\* else; an address enters the set only by a successful reserveAddr of it and
\* leaves it only by a freeAddr of it.
C5_ReserveAddr ==
    [][/\ \A a \in Addrs :
            (CallOf("reserveAddr") /\ arg'.a = a) =>
               IF a \in rosAddrs
               THEN last'.res = "ValueError" /\ rosAddrs' = rosAddrs
               ELSE last'.res = "ok" /\ rosAddrs' = rosAddrs \cup {a}
       /\ \A a \in Addrs :
            (a \notin rosAddrs /\ a \in rosAddrs') =>
               CallOf("reserveAddr") /\ arg'.a = a /\ last'.res = "ok"
       /\ \A a \in Addrs :
            (a \in rosAddrs /\ a \notin rosAddrs') =>
               \/ CallOf("freeAddr") /\ arg'.a = a
               \/ pc = "deleting" /\ \E h \in todo : IfAddr(h) = a
      ]_vars

\* C5 witness: a second reserveAddr of a reserved address failed.
C5_Witness ==
    /\ last = [op |-> "reserveAddr", res |-> "ValueError"]
    /\ arg.a \in rosAddrs

\* C6: freeAddr(a) never fails; it removes a reserved a and nothing else and
\* leaves the set unchanged when a is not reserved, so a second freeAddr(a)
\* changes nothing; after freeAddr(a) the address is free and a reserveAddr
\* of a free address succeeds.
C6_FreeAddr ==
    [][/\ \A a \in Addrs :
            (CallOf("freeAddr") /\ arg'.a = a) =>
               /\ last'.res = "ok"
               /\ rosAddrs' = rosAddrs \ {a}
               /\ a \notin rosAddrs => rosAddrs' = rosAddrs
               /\ a \notin rosAddrs'
       /\ \A a \in Addrs :
            (last.op = "freeAddr" /\ arg.a = a) => a \notin rosAddrs
       /\ \A a \in Addrs :
            (CallOf("reserveAddr") /\ arg'.a = a /\ last.op = "freeAddr"
                /\ arg.a = a) =>
               last'.res = "ok" /\ a \in rosAddrs'
      ]_vars

\* C6 witness: freeAddr of an address that is not reserved returned while
\* another address stays reserved.
C6_Witness ==
    /\ last = [op |-> "freeAddr", res |-> "ok"]
    /\ arg.a \notin rosAddrs
    /\ rosAddrs # {}
    /\ nops >= 3

\* The outcome C7 states for setConnectedFlag(flag).
C7_Outcome(flag) ==
    IF flag /\ connected
    THEN /\ last'.res = "InvalidRequest"
         /\ notified' = <<>>
         /\ connected' = TRUE
    ELSE /\ last'.res = "ok"
         /\ connected' = flag
         /\ notified' = <<[uid |-> Uid, flag |-> flag]>>

\* C7 as stated: the outcome in any state of a ContainerProxy.
C7_Original ==
    [][\A f \in BOOLEAN :
         (CallOf("setConnectedFlag") /\ arg'.flag = f) => C7_Outcome(f)
      ]_vars

\* C7 amended: on a ContainerProxy that has not been deleted,
\* setConnectedFlag(true) while the flag is true raises InvalidRequest, sends
\* nothing and leaves the flag true; setConnectedFlag(true) while the flag is
\* false sets it and sends one update (uid, true); setConnectedFlag(false)
\* always succeeds, leaves the flag false and sends one update (uid, false).
C7_SetConnectedFlag ==
    [][\A f \in BOOLEAN :
         (CallOf("setConnectedFlag") /\ arg'.flag = f /\ ~Deleted) =>
            C7_Outcome(f)
      ]_vars

\* C7 witness: setConnectedFlag(false) succeeded and notified on a container
\* whose flag was already false (the update is the first one ever sent).
C7_Witness ==
    /\ last = [op |-> "setConnectedFlag", res |-> "ok"]
    /\ ~arg.flag /\ ~connected
    /\ notified = <<[uid |-> Uid, flag |-> FALSE]>>
    /\ user = "User"

\* The capabilities C8 names for each class.
C8_Capabilities(k) ==
    CASE k = "Robot" -> {"IRobotControl", "IEndpointControl"}
      [] k = "ROSEnv" -> {"INodeControl", "IParameterControl"}
      [] k = "Container" -> {"IContainerControl", "INodeControl",
                             "IParameterControl"}
      [] OTHER -> {}

\* C8: a construction whose control lacks a capability its class requires
\* raises before any command is sent and leaves no proxy; with a control
\* that provides every capability it succeeds, and RobotProxy sends exactly
\* one createRobot(RobotCommand(robotID, key)), ContainerProxy exactly one
\* createContainer(ContainerCommand(cTag, commID)) (a plain ROSEnvProxy has no
\* creation command and sends none).
C8_Construction ==
    /\ (pc # "new" /\ ~(C8_Capabilities(kind) \subseteq caps)) =>
          /\ pc = "failed"
          /\ last = [op |-> "construct", res |-> "ContractViolation"]
          /\ sent = <<>>
          /\ user = "Unset" /\ control = "Unset"
    /\ pc = "failed" => sent = <<>> /\ user = "Unset" /\ control = "Unset"
    /\ (pc # "new" /\ caps = Capabilities) => pc # "failed"
    /\ (last.op = "construct" /\ last.res = "ok") =>
          /\ pc = "active" /\ user = "User" /\ control = "Control"
          /\ kind = "Robot" =>
               sent = <<Command("createRobot", "RobotCommand",
                                <<Uid, Key>>)>>
          /\ kind = "Container" =>
               sent = <<Command("createContainer", "ContainerCommand",
                                <<Uid, CommID>>)>>
          /\ kind = "ROSEnv" => sent = <<>>

\* C8 witness: the construction of a ContainerProxy failed for a control
\* that provides everything but IContainerControl.
C8_Witness ==
    /\ pc = "failed"
    /\ kind = "Container"
    /\ caps = Capabilities \ {"IContainerControl"}
    /\ sent = <<>>

\* A name the claims call legal, and one they call illegal: is_legal_name
\* answers true, or false.
Legal(name) == is_legal_name(name).err = "" /\ is_legal_name(name).v.n = 1

Illegal(name) == is_legal_name(name).err = "" /\ is_legal_name(name).v.n = 0

\* The command is one addNode(NodeCommand) whose six fields hold the text
\* of the six arguments.
C9_Forwarded(cmds, node) ==
    /\ Len(cmds) = 1
    /\ cmds[1].cmd = "addNode" /\ cmds[1].cls = "NodeCommand"
    /\ Len(cmds[1].args) = 6
    /\ \A i \in 1..6 : cmds[1].args[i].s = node[i].s

\* C9: on an active environment proxy addNode with a legal namespace
\* forwards exactly one node-creation command with the six fields of the
\* call, and with an illegal namespace raises InvalidRequest and forwards
\* nothing.
C9_Original ==
    [][(CallOf("addNode") /\ ~Deleted) =>
          /\ Legal(arg'.node[6]) =>
                last'.res = "ok" /\ C9_Forwarded(sent', arg'.node)
          /\ Illegal(arg'.node[6]) =>
                last'.res = "InvalidRequest" /\ sent' = <<>>
      ]_vars

\* C9, the part the code keeps: a request that is not forwarded as it stands
\* raises an exception and reaches the control with nothing.
C9_NothingForwarded ==
    [][(CallOf("addNode") /\ ~Deleted) =>
          \/ last'.res = "ok" /\ C9_Forwarded(sent', arg'.node)
          \/ last'.res \in {"InvalidRequest", "UnicodeEncodeError",
                             "TypeError"} /\ sent' = <<>>
      ]_vars

\* The letter of a scalar token in the composite type code.
C10_Letter(token) ==
    CASE token = <<"i", "n", "t">> -> "I"
      [] token = <<"s", "t", "r">> -> "S"
      [] token = <<"f", "l", "o", "a", "t">> -> "F"
      [] token = <<"b", "o", "o", "l">> -> "B"

\* The token lists C10 ranges over.
C10_TokenLists ==
    UNION {[1..n -> ScalarTokens] : n \in 1..MaxArrayLen}
    \cup {<<<<"i", "n", "t">>, <<"s", "t", "r">>,
            <<"b", "o", "o", "l">>>>}

\* The array form of a token list with blanks around every token.
C10_PaddedArray(ts) ==
    <<"[">> \o Join([i \in DOMAIN ts |-> <<" ">> \o ts[i] \o <<" ">>], ",")
            \o <<"]">>

\* The parameter command C10 expects for the tokens ts and the elements es.
C10_Expected(cls, name, es, ts, codeType) ==
    <<Command("addParameter", cls,
              <<name,
                PyList([i \in DOMAIN ts |-> _cast(es[i], ts[i]).v]),
                [t |-> codeType, n |-> 0, e |-> 0,
                 s |-> [i \in DOMAIN ts |-> C10_Letter(ts[i])],
                 items |-> <<>>]>>)>>

\* The type specifications C10 ranges over, each with its token list.
C10_ArrayForms ==
    {[text |-> ArrayType(ts), ts |-> ts] : ts \in C10_TokenLists}
    \cup {[text |-> C10_PaddedArray(ts), ts |-> ts] : ts \in C10_TokenLists}

C10_BareForms ==
    {[text |-> tk, ts |-> <<tk>>] : tk \in ScalarTokens}
    \cup {[text |-> <<" ">> \o tk \o <<" ">>, ts |-> <<tk>>] :
             tk \in ScalarTokens}

\* C10: on a proxy that is not deleted, addParameter with a legal name, a
\* type of n scalar tokens (an array "[t1,...,tn]", or one bare token) and n
\* values that all coerce forwards exactly one parameter command with the
\* name, the coerced values in their order and the type code of the n
\* upper-cased first letters; "[int,str,bool]" with ["5", "x", True] gives
\* [5, "x", True] and "ISB".
C10_AddParameter ==
    [][(CallOf("addParameter") /\ ~Deleted /\ Legal(arg'.par[1])) =>
          /\ \A f \in C10_ArrayForms :
               (/\ arg'.par[3].s = f.text
                /\ HasLen(arg'.par[2])
                /\ Len(Elements(arg'.par[2])) = Len(f.ts)
                /\ \A i \in DOMAIN f.ts :
                      _cast(Elements(arg'.par[2])[i], f.ts[i]).err = "") =>
                  /\ last'.res = "ok"
                  /\ sent' = C10_Expected("ArrayCommand", arg'.par[1],
                                          Elements(arg'.par[2]), f.ts,
                                          arg'.par[3].t)
          /\ \A f \in C10_BareForms :
               (/\ arg'.par[3].s = f.text
                /\ _cast(arg'.par[2], f.ts[1]).err = "") =>
                  /\ last'.res = "ok"
                  /\ sent' = C10_Expected("ParameterCommand", arg'.par[1],
                                          <<arg'.par[2]>>, f.ts,
                                          arg'.par[3].t)
          /\ (/\ arg'.par[2] = PyList(<<PyStr(<<"5">>), PyStr(<<"x">>),
                                        PyBool(TRUE)>>)
              /\ arg'.par[3] = PyStr(ArrayType(<<<<"i", "n", "t">>,
                                                  <<"s", "t", "r">>,
                                                  <<"b", "o", "o", "l">>>>))
             ) =>
                sent' = <<Command("addParameter", "ArrayCommand",
                                  <<arg'.par[1],
                                    PyList(<<PyInt(5), PyStr(<<"x">>),
                                             PyBool(TRUE)>>),
                                    PyStr(<<"I", "S", "B">>)>>)>>
      ]_vars

\* C10 witness: the array request "[int,str,bool]" with ["5", "x", True] was
\* forwarded as one ArrayCommand with [5, "x", True] and "ISB".
C10_Witness ==
    /\ last = [op |-> "addParameter", res |-> "ok"]
    /\ arg.par[3] = PyStr(<<"[", "i", "n", "t", ",", "s", "t", "r", ",",
                            "b", "o", "o", "l", "]">>)
    /\ sent = <<Command("addParameter", "ArrayCommand",
                        <<LegalName,
                          PyList(<<PyInt(5), PyStr(<<"x">>), PyBool(TRUE)>>),
                          PyStr(<<"I", "S", "B">>)>>)>>

\* A value that does not coerce for the token: non-numeric or null for
\* int, float and bool, not a string for str and file.
C11_FailsCoercion(value, token) ==
    CASE token = <<"i", "n", "t">> -> pyInt(value).err # ""
      [] token = <<"f", "l", "o", "a", "t">> -> pyFloat(value).err # ""
      [] token = <<"b", "o", "o", "l">> -> _castBool(value).err # ""
      [] token \in {<<"s", "t", "r">>, <<"f", "i", "l", "e">>} ->
            value.t \notin {"str", "unicode"}
      [] OTHER -> FALSE

\* The invalid inputs C11 lists: an illegal name, an empty type string, an
\* unknown token, "file" inside an array, an array whose value count differs
\* from its token count, an element that does not coerce for its token.
C11_Invalid(name, value, paramType) ==
    LET pt == strip(paramType.s)
    IN \/ Illegal(name)
       \/ pt = <<>> /\ paramType.t \in {"str", "unicode"}
       \/ /\ pt # <<>>
          /\ IsArrayType(pt)
          /\ \/ \E i \in DOMAIN TypeTokens(pt) :
                    TypeTokens(pt)[i] \notin ScalarTokens
             \/ /\ value.t = "list"
                /\ \/ Len(value.items) # Len(TypeTokens(pt))
                   \/ \E i \in DOMAIN value.items :
                          C11_FailsCoercion(value.items[i], TypeTokens(pt)[i])
       \/ /\ pt # <<>>
          /\ ~IsArrayType(pt)
          /\ pt \notin Tokens \/ C11_FailsCoercion(value, pt)

\* C11: every addParameter call on an active proxy whose input is invalid
\* (illegal name, value count differing from the token count, empty type
\* string, unknown token, "file" inside an array, an element that does not
\* coerce) raises InvalidRequest, no other exception, and forwards no command.
C11_InvalidRequestOnly ==
    [][(/\ CallOf("addParameter")
        /\ ~Deleted
        /\ C11_Invalid(arg'.par[1], arg'.par[2], arg'.par[3])) =>
          last'.res = "InvalidRequest" /\ sent' = <<>>
      ]_vars

\* C11, the part the code keeps: an invalid input never reaches the control.
C11_NothingForwarded ==
    [][(/\ CallOf("addParameter")
        /\ C11_Invalid(arg'.par[1], arg'.par[2], arg'.par[3])) =>
          last'.res # "ok" /\ sent' = <<>>
      ]_vars

\* The boolean C12 states for a value: the direct one of "true" / "false",
\* else the truth of its integer conversion, else none (a failure).
C12_Bool(value) ==
    LET v == IF value.t \in {"str", "unicode"}
             THEN lower(strip(value.s)) ELSE <<>>
    IN IF v = <<"t", "r", "u", "e">> THEN Ok(PyBool(TRUE))
       ELSE IF v = <<"f", "a", "l", "s", "e">> THEN Ok(PyBool(FALSE))
       ELSE IF pyInt(value).err = "" THEN Ok(PyBool(pyInt(value).v.n # 0))
       ELSE Raise("InvalidRequest")

\* C12: addParameter of a value under the type "bool" coerces a string
\* whose trimmed, lower-cased form is "true" or "false" to that boolean and
\* every other value, other strings included, to the truth of its integer
\* conversion; only a value without integer conversion fails, with
\* InvalidRequest.
C12_BoolCoercion ==
    [][(/\ CallOf("addParameter")
        /\ ~Deleted
        /\ Legal(arg'.par[1])
        /\ strip(arg'.par[3].s) = <<"b", "o", "o", "l">>) =>
          IF C12_Bool(arg'.par[2]).err = ""
          THEN /\ last'.res = "ok"
               /\ Len(sent') = 1
               /\ sent'[1].args[2] = PyList(<<C12_Bool(arg'.par[2]).v>>)
          ELSE last'.res = "InvalidRequest" /\ sent' = <<>>
      ]_vars

\* The destruction command C13 names for the class.
C13_Command(k) ==
    IF k = "Robot" THEN Command("destroyRobot", "str", <<Uid>>)
    ELSE Command("destroyContainer", "str", <<Uid>>)

\* C13: a delete() of a RobotProxy or ContainerProxy (not deleted before)
\* issues exactly one destruction command, destroyRobot(uid) /
\* destroyContainer(uid); the control has received it before delete() is
\* invoked on any interface and before self._user and self._control are
\* cleared, and no further command follows during the call.
C13_DestroyFirst ==
    [][(kind \in {"Robot", "Container"}) =>
         /\ (pc = "active" /\ pc' = "deleting") =>
               /\ sent' = <<C13_Command(kind)>>
               /\ ifCalls' = <<>>
               /\ user' = "User" /\ control' = "Control"
         /\ pc = "deleting" =>
               /\ sent = <<C13_Command(kind)>>
               /\ sent' = sent
         /\ (\E h \in Handles :
                 DeleteCount(ifCalls', h) > DeleteCount(ifCalls, h)) =>
               sent = <<C13_Command(kind)>>
         /\ ((user = "User" /\ user' = "None")
                \/ (control = "Control" /\ control' = "None")) =>
               sent = <<C13_Command(kind)>>
      ]_vars

\* C13 witness: the delete() of a ContainerProxy with a registered
\* interface has returned after one destroyContainer(uid).
C13_Witness ==
    /\ kind = "Container"
    /\ last = [op |-> "delete", res |-> "ok"]
    /\ sent = <<Command("destroyContainer", "str", <<Uid>>)>>
    /\ snap # {}
    /\ \A h \in snap : DeleteCount(ifCalls, h) = 1
    /\ user = "None" /\ control = "None"

\* Every interface of the copy unregisters itself in its delete().
C14_AllUnregister == \A h \in snap : ifBehav[h] = "unreg"

\* C14: delete() iterates a copy of the interface set: when the delete() of
\* each interface calls back unregisterInterface(itself) (and freeAddr of its
\* address), each iteration removes that interface from the set without an
\* InternalError, every interface of the copy is deleted exactly once, none
\* is skipped, and when delete() returns the interface set is empty.
C14_SnapshotCascade ==
    [][(pc = "deleting" /\ C14_AllUnregister) =>
         /\ last'.res \in {"running", "ok"}
         /\ \A h \in Handles :
              DeleteCount(ifCalls', h) > DeleteCount(ifCalls, h) =>
                 /\ h \in interfaces
                 /\ interfaces' = interfaces \ {h}
                 /\ DeleteCount(ifCalls', h) = 1
                 /\ IsEnv(kind) => IfAddr(h) \notin rosAddrs'
         /\ pc' = "active" =>
              /\ last'.res = "ok"
              /\ \A h \in snap : DeleteCount(ifCalls', h) = 1
              /\ interfaces' = {}
      ]_vars

\* C14 witness: the delete() of an environment proxy with two interfaces that
\* unregister themselves has returned with an empty interface set.
C14_Witness ==
    /\ last = [op |-> "delete", res |-> "ok"]
    /\ pc = "active"
    /\ IsEnv(kind)
    /\ Cardinality(snap) >= 2
    /\ C14_AllUnregister
    /\ \A h \in snap : DeleteCount(ifCalls, h) = 1
    /\ interfaces = {}

\* C15: self._user and self._control are cleared only by the step that
\* completes a delete() call (after its cascade), never before a proxy
\* exists; and once one of them is cleared, no operation (registerInterface,
\* setConnectedFlag, a further delete(), or any other) sets it again.
C15_DeletedTerminal ==
    [][/\ pc = "new" => user # "None" /\ control # "None"
       /\ ((user # "None" /\ user' = "None")
              \/ (control # "None" /\ control' = "None")) =>
            /\ pc = "deleting" /\ todo = {}
            /\ pc' = "active"
            /\ last' = [op |-> "delete", res |-> "ok"]
       /\ user = "None" => user' = "None"
       /\ control = "None" => control' = "None"
      ]_vars

\* C15 witness: on a deleted ContainerProxy a registerInterface, a
\* setConnectedFlag or a further delete() has returned and the references are
\* still cleared.
C15_Witness ==
    /\ kind = "Container"
    /\ user = "None" /\ control = "None"
    /\ pc = "active"
    /\ last.op \in {"registerInterface", "setConnectedFlag"}
    /\ nops >= 3

\* The calls of an environment proxy that is never deleted, with every tag
\* and every name offered to the removals.
NextRemove ==
    \/ \E k \in {"ROSEnv", "Container"} : Construct(k, Capabilities)
    \/ \E h \in Handles : registerInterface(h)
    \/ \E h \in Handles : unregisterInterface(h)
    \/ \E a \in Addrs : reserveAddr(a)
    \/ \E a \in Addrs : freeAddr(a)
    \/ \E f \in BOOLEAN : setConnectedFlag(f)
    \/ \E in \in NodeInputsSmall :
           addNode(in[1], in[2], in[3], in[4], in[5], in[6])
    \/ \E in \in ParamInputsSmall : addParameter(in[1], in[2], in[3])
    \/ \E t \in Tags : removeNode(t)
    \/ \E n \in Names : removeParameter(n)

SpecRemove == InitRequest({NoRequest}) /\ [][NextRemove]_vars

\* What C16 says the removal leaves alone.
C16_Frame ==
    /\ interfaces' = interfaces
    /\ rosAddrs' = rosAddrs
    /\ connected' = connected
    /\ user' = user /\ control' = control

\* C16: on an active environment proxy removeNode(tag) forwards exactly one
\* removeNode(tag) and removeParameter(name) exactly one removeParameter(name)
\* to the control, for every argument and whether or not an addNode /
\* addParameter came before; both leave the interface set, the reserved
\* addresses, the connected flag and the references unchanged.
C16_Removals ==
    [][/\ (CallOf("removeNode") /\ ~Deleted) =>
            /\ last'.res = "ok"
            /\ sent' = <<Command("removeNode", "str", <<arg'.node[1]>>)>>
            /\ notified' = <<>> /\ ifCalls' = <<>>
            /\ C16_Frame
       /\ (CallOf("removeParameter") /\ ~Deleted) =>
            /\ last'.res = "ok"
            /\ sent' = <<Command("removeParameter", "str", <<arg'.par[1]>>)>>
            /\ notified' = <<>> /\ ifCalls' = <<>>
            /\ C16_Frame
      ]_vars

\* reserveAddr run by caller t, first step: the test of line 401.  Under
\* external mutual exclusion no other caller is inside reserveAddr.
reserveAddrCheck(t, addr) ==
    /\ Idle
    /\ IsEnv(kind)
    /\ threads[t].pc = "idle"
    /\ exclusive => \A u \in Callers : threads[u].pc = "idle"
    /\ nops' = nops + 1
    /\ IF reserveAddrRaises(addr)
       THEN threads' = [threads EXCEPT ![t].a = addr]
       ELSE threads' = [threads EXCEPT ![t].pc = "checked", ![t].a = addr]
    /\ UNCHANGED <<pc, kind, caps, user, control, interfaces, rosAddrs,
                   connected, todo, snap, sent, notified, ifCalls, lastNote,
                   last, arg, ifBehav, request, exclusive>>

\* reserveAddr run by caller t, second step: the add of line 404.
reserveAddrAdd(t) ==
    /\ pc = "active"
    /\ threads[t].pc = "checked"
    /\ rosAddrs' = rosAddrs \cup {threads[t].a}
    /\ threads' = [threads EXCEPT ![t].pc = "idle",
                                  ![t].won = @ \cup {threads[t].a}]
    /\ UNCHANGED <<pc, kind, caps, user, control, interfaces, connected,
                   todo, snap, sent, notified, ifCalls, lastNote, last, arg,
                   nops, ifBehav, request, exclusive>>

\* Several callers use reserveAddr of one environment proxy, with or without
\* external mutual exclusion.
InitRace ==
    /\ pc = "new"
    /\ kind = "none"
    /\ caps = {}
    /\ user = "Unset"
    /\ control = "Unset"
    /\ interfaces = {}
    /\ rosAddrs = {}
    /\ connected = FALSE
    /\ todo = {}
    /\ snap = {}
    /\ sent = <<>>
    /\ notified = <<>>
    /\ ifCalls = <<>>
    /\ lastNote = "none"
    /\ last = [op |-> "none", res |-> "none"]
    /\ arg = NoArg
    /\ nops = 0
    /\ ifBehav = [h \in Handles |-> "plain"]
    /\ request = NoRequest
    /\ threads = NoThreads
    /\ exclusive \in BOOLEAN

NextRace ==
    \/ \E k \in {"ROSEnv", "Container"} : Construct(k, Capabilities)
    \/ \E t \in Callers, a \in Addrs : reserveAddrCheck(t, a)
    \/ \E t \in Callers : reserveAddrAdd(t)

SpecRace == InitRace /\ [][NextRace]_vars

\* Two callers have each reserved the same address (no freeAddr between).
C17_Broken ==
    \E t, u \in Callers : t # u /\ threads[t].won \cap threads[u].won # {}

\* C17: when every reserveAddr runs under external mutual exclusion, no two
\* calls for the same address both succeed; only when the test and the add of
\* concurrent calls may interleave is a state with two successful
\* reservations of one address reachable.
C17_ExclusiveUnderLock == C17_Broken => ~exclusive

\* C17 witness: without mutual exclusion both callers have reserved the same
\* address.
C17_Witness ==
    /\ ~exclusive
    /\ C17_Broken
    /\ \A t \in Callers : threads[t].pc = "idle"

\* C18: on a RobotProxy or ContainerProxy on which a delete() has completed,
\* every further delete() raises before a destruction command is issued and
\* before delete() is invoked on an interface; so from then on the control
\* receives no destruction command and the proxy deletes no interface again.
C18_NoSecondDelete ==
    [][(Deleted /\ kind \in {"Robot", "Container"}) =>
         /\ CallOf("delete") =>
              /\ last'.res = "AttributeError"
              /\ pc' = "active"
              /\ sent' = <<>> /\ ifCalls' = <<>>
              /\ interfaces' = interfaces
         /\ \A i \in DOMAIN sent' :
              sent'[i].cmd \notin {"destroyRobot", "destroyContainer"}
         /\ \A h \in Handles : DeleteCount(ifCalls', h) = 0
         /\ Deleted'
      ]_vars

\* C18 witness: a second delete() of a RobotProxy whose first delete() had
\* deleted an interface has failed without a command or an interface call.
C18_Witness ==
    /\ kind = "Robot"
    /\ Deleted
    /\ last = [op |-> "delete", res |-> "AttributeError"]
    /\ Cardinality(snap) >= 1
    /\ sent = <<>> /\ ifCalls = <<>>

\* C19: in every state of a ContainerProxy, after any setConnectedFlag and
\* delete() calls, failed ones included, the connected flag equals the flag
\* of the latest sendContainerUpdate the user received, and is false when
\* none was sent: a failing setConnectedFlag leaves the flag unchanged.
C19_FlagMatchesNotification ==
    (kind = "Container" /\ pc \in {"active", "deleting"}) =>
        connected = (lastNote = "true")

\* C19 on a ContainerProxy whose delete() has not completed: there the flag
\* follows the notifications.
C19_WhileNotDeleted ==
    (kind = "Container" /\ pc \in {"active", "deleting"} /\ user = "User") =>
        connected = (lastNote = "true")

\* Teardown with interface objects whose delete() may also raise or
\* unregister another interface.
InitTeardown ==
    /\ pc = "new"
    /\ kind = "none"
    /\ caps = {}
    /\ user = "Unset"
    /\ control = "Unset"
    /\ interfaces = {}
    /\ rosAddrs = {}
    /\ connected = FALSE
    /\ todo = {}
    /\ snap = {}
    /\ sent = <<>>
    /\ notified = <<>>
    /\ ifCalls = <<>>
    /\ lastNote = "none"
    /\ last = [op |-> "none", res |-> "none"]
    /\ arg = NoArg
    /\ nops = 0
    /\ ifBehav \in [Handles -> IfaceBehavioursAll]
    /\ request = NoRequest
    /\ threads = NoThreads
    /\ exclusive = TRUE

NextTeardown ==
    \/ \E k \in Kinds : Construct(k, Capabilities)
    \/ \E h \in Handles : registerInterface(h)
    \/ \E a \in Addrs : reserveAddr(a)
    \/ deleteBegin
    \/ \E h \in Handles : deleteStep(h)
    \/ deleteEnd

\* A delete() that has begun runs on: the loop and the statements after it
\* are plain sequential code.
SpecTeardown ==
    /\ InitTeardown
    /\ [][NextTeardown]_vars
    /\ WF_vars((\E h \in Handles : deleteStep(h)) \/ deleteEnd)

\* C20: teardown is total: every delete() called on an active proxy
\* finishes with self._user and self._control cleared and with delete()
\* invoked on every interface that was registered, also when the delete() of
\* an interface raises or unregisters another registered interface.
C20_TeardownTotal ==
    [][(pc = "deleting" /\ pc' = "active") =>
         /\ user' = "None" /\ control' = "None"
         /\ \A h \in snap : DeleteCount(ifCalls', h) = 1
      ]_vars

====
